---- MODULE Spec2Model ----
(***************************************************************************)
(* A model of run() and execBashCommand() of src/action-ros2-ci.ts: the    *)
(* action that assembles a ROS 2 workspace, injects the repository under   *)
(* test, prunes the packages the target does not need, builds, tests and   *)
(* extracts coverage.                                                      *)
(*                                                                         *)
(* Strings the code builds are kept as structured values: a command prefix *)
(* is the list of distributions whose setup script it sources, a command   *)
(* line is the tool it names with the arguments that vary.  Directories    *)
(* are paths (sequences of names) below ros2_ws.                           *)
(***************************************************************************)
EXTENDS Integers, Sequences, FiniteSets, TLC

VARIABLES
    inputs,         \* action inputs, environment and remote repositories (read-only)
    deps,           \* package.xml of the workspace's packages, once colcon has read them
    pc,             \* position of run()
    commandPrefix,  \* let commandPrefix (line 73)
    extra_options,  \* let extra_options (line 170)
    colconHome,     \* does ~/.colcon exist
    tree,           \* directories below ros2_ws: path -> checked-out ref ("" = plain)
    log,            \* every io / exec call made so far, in call order
    failed,         \* core.setFailed was called
    message         \* the message given to core.setFailed

vars == <<inputs, deps, pc, commandPrefix, extra_options, colconHome, tree, log, failed, message>>

-----------------------------------------------------------------------------
(* Bounds of the model *)

MaxDistros == 2     \* entries of source-ros-binary-installation
MaxExit == 1        \* exit statuses a command body may return: 0..MaxExit
MaxDeps == 2        \* dependencies one package may declare
MaxTargets == 2     \* entries of package-name

-----------------------------------------------------------------------------
(* Values *)

Platforms == {"linux", "win32", "darwin"}
Distros == {"eloquent", "dashing"}
RepoName == "t"                         \* github.context.repo.repo
Names == <<"a", "b", "c", "t">>         \* package / repository names, in sort order
NameSet == {Names[i] : i \in 1..Len(Names)}
GroupDir == "g"                         \* a manifest key may be nested: g/<name>
ExitCodes == 0..MaxExit
CommandNotFound == 127                  \* bash: status of a command word it cannot find

\* the commands and filesystem calls of run(), by what they invoke
RosdepUpdateCmd == "rosdep update"
RmColconOp == "io.rmRF ~/.colcon"
RmWorkspaceOp == "io.rmRF ros2_ws"
MkdirSrcOp == "io.mkdirP ros2_ws/src"
ManifestImportCmd == "curl | vcs import src/"
RemoveTargetCmd == "find -type d -name | xargs rm -rf"
TargetImportCmd == "vcs import src/ << EOF"
PruneCmd == "diff <(colcon list -p) <(colcon list --packages-up-to -p) | xargs rm -rf"
RosdepInstallCmd == "rosdep install"
MixinAddCmd == "colcon mixin add default"
MixinUpdateCmd == "colcon mixin update default"
BuildCmd == "colcon build --packages-up-to"
TestCmd == "colcon test --packages-select"
LcovCmd == "colcon lcov-result --packages-select"

BSeq(S, n) == UNION {[1..k -> S] : k \in 0..n}
Rank(n) == CHOOSE i \in 1..Len(Names) : Names[i] = n
Last(s) == s[Len(s)]
IsPrefix(p, q) == Len(p) <= Len(q) /\ SubSeq(q, 1, Len(p)) = p
Range(s) == {s[i] : i \in 1..Len(s)}

SrcDir == <<"src">>
EmptyTree == [p \in {} |-> ""]

-----------------------------------------------------------------------------
(* Filesystem and external tools, by their documented behaviour *)

\* io.mkdirP: the directory and every missing parent; existing entries are kept
MkdirP(t, path) ==
    LET want == {SubSeq(path, 1, k) : k \in 0..Len(path)}
    IN  [p \in DOMAIN t \cup want |-> IF p \in DOMAIN t THEN t[p] ELSE ""]

\* io.rmRF / rm -rf: the directory and everything below it; no error if absent
RmRF(t, path) == [p \in {q \in DOMAIN t : ~IsPrefix(path, q)} |-> t[p]]

RECURSIVE RmAll(_, _)
RmAll(t, paths) ==
    IF paths = <<>> THEN t ELSE RmAll(RmRF(t, Head(paths)), Tail(paths))

\* vcs import <dir>: every entry of the manifest becomes a checkout dir/<key>
\* at the entry's version; content is what the checkout brings along
VcsImport(t, dir, man, content) ==
    LET roots == {dir \o k : k \in DOMAIN man}
        made  == UNION {{SubSeq(r, 1, j) : j \in 0..Len(r)} : r \in roots}
        inner == {r \o c : r \in roots, c \in content}
        refOf(p) == man[CHOOSE k \in DOMAIN man : dir \o k = p]
    IN  [p \in DOMAIN t \cup made \cup inner |->
            IF p \in roots THEN refOf(p)
            ELSE IF p \in DOMAIN t THEN t[p] ELSE ""]

\* find "<ros2_ws>" -type d -name <name>: at any depth
FindDirsNamed(t, name) == {p \in DOMAIN t : Len(p) > 0 /\ Last(p) = name}

\* a set of paths as the list of lines a tool prints: by name, shorter path first
RECURSIVE Lines(_)
Lines(S) ==
    IF S = {} THEN <<>>
    ELSE LET m == CHOOSE p \in S : \A q \in S :
                     Rank(Last(p)) * 8 + Len(p) <= Rank(Last(q)) * 8 + Len(q)
         IN  <<m>> \o Lines(S \ {m})

\* packages colcon discovers: the checkouts below src/ (named by their directory)
PackagePaths(t) ==
    {p \in DOMAIN t : Len(p) > 1 /\ t[p] # "" /\ Last(p) \in NameSet /\ p[1] = "src"}
PackageNames(t) == {Last(p) : p \in PackagePaths(t)}

\* colcon list --packages-up-to: the named packages that exist and, recursively,
\* the dependencies of theirs that exist; unknown names are ignored
RECURSIVE UpTo(_, _, _, _)
UpTo(present, d, todo, seen) ==
    IF todo = {} THEN seen
    ELSE LET n == CHOOSE x \in todo : TRUE
         IN  UpTo(present, d,
                  (todo \cup (d[n] \cap present)) \ (seen \cup {n}),
                  seen \cup {n})

PackagesUpTo(present, d, targets) == UpTo(present, d, targets \cap present, {})

\* colcon list -p [--packages-up-to ...]: paths, sorted by package name
ColconListAll(t) == Lines(PackagePaths(t))
ColconListUpTo(t, d, targets) ==
    LET need == PackagesUpTo(PackageNames(t), d, Range(targets))
    IN  Lines({p \in PackagePaths(t) : Last(p) \in need})

DiffAllOfOld(old, new) == old

\* diff --new-line-format="" --unchanged-line-format="" <(old) <(new): only the
\* lines of old that new does not match are printed.  Both listings come from
\* colcon in the same order, so matching walks the two lists in step.
RECURSIVE DiffOldOnly(_, _)
DiffOldOnly(old, new) ==
    IF old = <<>> THEN <<>>
    ELSE IF new # <<>> /\ Head(old) = Head(new)
         THEN DiffOldOnly(Tail(old), Tail(new))
         ELSE <<Head(old)>> \o DiffOldOnly(Tail(old), new)

-----------------------------------------------------------------------------
(* Command lines and execBashCommand *)

\* a JavaScript string argument, or undefined
Str(sources) == [defined |-> TRUE, sources |-> sources]
Undefined == [defined |-> FALSE, sources |-> <<>>]

\* `${commandPrefix}`: a template literal writes undefined as the word "undefined"
TemplateText(p) ==
    IF p.defined THEN [sources |-> p.sources, word |-> ""]
                 ELSE [sources |-> <<>>, word |-> "undefined"]

Line(tool, pkgs, extra, orTrue) ==
    [tool |-> tool, pkgs |-> pkgs, extra |-> extra, orTrue |-> orTrue]

\* options = { cwd } (line 105), and the omitted argument of lines 120, 165
DefaultOptions == [ignoreReturnCode |-> FALSE]

\* execBashCommand: bashScript = `${commandPrefix}${commandLine}`, run by bash -c
execBashCommand(commandLine, prefix, options) ==
    [kind |-> "exec", line |-> commandLine, lead |-> TemplateText(prefix),
     ignoreReturnCode |-> options.ignoreReturnCode,
     state |-> "running", inner |-> 0, status |-> 0]

IoCall(tool) ==
    [kind |-> "io", line |-> Line(tool, <<>>, <<>>, FALSE), lead |-> TemplateText(Str(<<>>)),
     ignoreReturnCode |-> FALSE, state |-> "running", inner |-> 0, status |-> 0]

\* Does bash reach the command line proper: the lead must be sourcing clauses
\* joined by &&, each of which succeeded (srcFail = 0: none failed)
BodyRuns(call, srcFail) == call.lead.word = "" /\ srcFail = 0

\* Status of '<lead><line>' up to a trailing "|| true": a word glued to the
\* line makes an unknown command; a failing source stops the && chain
ChainStatus(call, srcFail, body) ==
    IF call.lead.word # "" THEN CommandNotFound
    ELSE IF srcFail > 0 THEN 1
    ELSE body

\* Exit status of bash -c '<lead><line>': "|| true" absorbs whatever failed
\* before it
BashStatus(call, srcFail, body) ==
    IF call.line.orTrue THEN 0 ELSE ChainStatus(call, srcFail, body)

\* tr.ToolRunner.exec(): the promise is rejected on a non-zero exit status unless
\* options.ignoreReturnCode is set
RejectsInverted(call, status) == status # 0 /\ call.ignoreReturnCode
Rejects(call, status) == status # 0 /\ ~call.ignoreReturnCode

NoMessage == [kind |-> "none", code |-> 0]
\* "The process 'bash' failed with exit code <status>"
ExecError(status) == [kind |-> "exec", code |-> status]
IoError == [kind |-> "io", code |-> 0]
InputError == [kind |-> "input", code |-> 0]
PlatformError == [kind |-> "platform", code |-> 0]

-----------------------------------------------------------------------------
(* Inputs of a run *)

ManifestOver(K) == [k \in K |-> "main"]

NoDeps == [n \in NameSet |-> {}]

\* a dependency graph over the packages present; dependencies on packages
\* that are not in the workspace do not count (colcon ignores them)
DepsOver(P) ==
    {d \in [NameSet -> SUBSET P] :
        \A n \in NameSet : /\ n \notin d[n]
                            /\ Cardinality(d[n]) <= MaxDeps
                            /\ (n \notin P => d[n] = {})}

\* package-name, split at whitespace
PackageLists == {Lines({<<n>> : n \in S}) : S \in {T \in SUBSET NameSet : Cardinality(T) <= MaxTargets}}
NameList(l) == [i \in 1..Len(l) |-> l[i][1]]

ControlAll ==
    [platform : Platforms,
     sourceRosBinaryInstallation : BSeq(Distros, MaxDistros),
     colconMixinName : {"", "release"},
     colconMixinRepo : {"", "index.yaml"},
     vcsRepoFileUrl : {"", "ros2.repos"},
     packageNameList : {<<>>, <<"t">>}]

ControlPlain ==
    [platform |-> "linux", sourceRosBinaryInstallation |-> <<>>,
     colconMixinName |-> "", colconMixinRepo |-> "", vcsRepoFileUrl |-> "ros2.repos",
     packageNameList |-> <<"t">>]

ControlSome ==
    {ControlPlain,
     [ControlPlain EXCEPT !.sourceRosBinaryInstallation = <<"eloquent">>,
                          !.colconMixinName = "release", !.colconMixinRepo = "index.yaml"],
     [ControlPlain EXCEPT !.platform = "win32"],
     [ControlPlain EXCEPT !.platform = "darwin", !.sourceRosBinaryInstallation = <<"eloquent">>],
     [ControlPlain EXCEPT !.vcsRepoFileUrl = ""],
     [ControlPlain EXCEPT !.packageNameList = <<>>]}

WorkspaceAll ==
    [manifest : {ManifestOver(K) : K \in SUBSET {<<"t">>, <<"a">>, <<GroupDir, "t">>}},
     targetContent : SUBSET {<<RepoName>>},
     headRef : {"", "pr-123"},
     sha : {"abc123"}]

WorkspacePlain ==
    [manifest |-> ManifestOver({<<"a">>, <<"b">>, <<"t">>, <<GroupDir, "t">>}),
     targetContent |-> {}, headRef |-> "pr-123", sha |-> "abc123"]

\* what an earlier run may have left behind
StaleTree ==
    VcsImport(MkdirP(EmptyTree, SrcDir), SrcDir,
              [k \in {<<"t">>, <<"b">>} |-> "stale"], {})

Start(in, homes, trees) ==
    /\ inputs = in
    /\ deps = NoDeps
    /\ pc = "start"
    /\ commandPrefix = <<>>
    /\ extra_options = <<>>
    /\ colconHome \in homes
    /\ tree \in trees
    /\ log = <<>>
    /\ failed = FALSE
    /\ message = NoMessage

\* every configuration of the run, one manifest
Init ==
    \E c \in ControlAll : Start(c @@ WorkspacePlain, BOOLEAN, {EmptyTree, StaleTree})

\* every manifest and target repository, a few configurations
InitInject ==
    \/ \E w \in WorkspaceAll : Start(ControlPlain @@ w, BOOLEAN, {EmptyTree, StaleTree})
    \/ \E c \in ControlSome : Start(c @@ WorkspacePlain, {TRUE}, {StaleTree})

\* every set of packages and every target list, a few configurations
InitPrune ==
    \/ \E K \in SUBSET {<<"a">>, <<"b">>, <<"c">>}, l \in PackageLists :
          Start([ControlPlain EXCEPT !.packageNameList = NameList(l)]
                    @@ [WorkspacePlain EXCEPT !.manifest = ManifestOver(K)],
                {TRUE}, {StaleTree})
    \/ \E c \in ControlSome : Start(c @@ WorkspacePlain, {TRUE}, {StaleTree})

\* const commitRef = headRef || github.context.sha
CommitRef == IF inputs.headRef # "" THEN inputs.headRef ELSE inputs.sha

\* the manifest generated on the fly (lines 133-139)
TargetManifest == [k \in {<<RepoName>>} |-> CommitRef]

-----------------------------------------------------------------------------
(* run() *)

Running == {i \in 1..Len(log) : log[i].state = "running"}

\* await execBashCommand(...): the call is made; run() waits at `wait`
Call(call, wait) ==
    /\ log' = Append(log, call)
    /\ pc' = wait
    /\ UNCHANGED <<inputs, deps, commandPrefix, extra_options, colconHome, tree, failed, message>>

\* catch (error) { core.setFailed(error.message) }
Catch(error) ==
    /\ failed' = TRUE
    /\ message' = error
    /\ pc' = "done"

\* The awaited command ends.  Its body took effect (the workspace becomes
\* `after`) if bash reached it and it succeeded; a rejected promise is thrown
\* into the catch block, otherwise run() goes on at `next`.
Exits(next, after) ==
    LET call == Last(log)
    IN  \E srcFail \in 0..Len(call.lead.sources), body \in ExitCodes :
            LET status == BashStatus(call, srcFail, body)
            IN  /\ log' = [log EXCEPT ![Len(log)].state = "exited",
                                       ![Len(log)].inner = ChainStatus(call, srcFail, body),
                                       ![Len(log)].status = status]
                /\ tree' = IF BodyRuns(call, srcFail) /\ body = 0 THEN after ELSE tree
                /\ IF Rejects(call, status)
                      THEN Catch(ExecError(status))
                      ELSE pc' = next /\ UNCHANGED <<failed, message>>
                /\ UNCHANGED <<inputs, commandPrefix, extra_options, colconHome>>

\* await io.rmRF / io.mkdirP: done in one step, or it throws
Io(tool, next, newHome, newTree) ==
    \E ok \in BOOLEAN :
        /\ log' = Append(log, [IoCall(tool) EXCEPT !.state = IF ok THEN "exited" ELSE "threw"])
        /\ colconHome' = IF ok THEN newHome ELSE colconHome
        /\ tree' = IF ok THEN newTree ELSE tree
        /\ IF ok THEN pc' = next /\ UNCHANGED <<failed, message>> ELSE Catch(IoError)
        /\ UNCHANGED <<inputs, deps, commandPrefix, extra_options>>

Returns(next, after) == Exits(next, after) /\ UNCHANGED deps

\* lines 58-71: core.getInput(..., { required: true }) throws on an empty input
ReadInputs ==
    /\ pc = "start"
    /\ IF inputs.packageNameList = <<>> \/ inputs.vcsRepoFileUrl = ""
          THEN Catch(InputError)
          ELSE pc' = "prefix" /\ UNCHANGED <<failed, message>>
    /\ UNCHANGED <<inputs, deps, commandPrefix, extra_options, colconHome, tree, log>>

PlatformRejectedOnWindows ==
    inputs.sourceRosBinaryInstallation # <<>> /\ inputs.platform = "win32"

\* line 75
PlatformRejected == inputs.sourceRosBinaryInstallation # <<>> /\ inputs.platform # "linux"

\* lines 73-87: one sourcing clause per listed distribution; setFailed and
\* return when sourcing is asked for off Linux
BuildPrefix ==
    /\ pc = "prefix"
    /\ IF PlatformRejected
          THEN /\ failed' = TRUE
               /\ message' = PlatformError
               /\ pc' = "done"
               /\ UNCHANGED commandPrefix
          ELSE /\ commandPrefix' = inputs.sourceRosBinaryInstallation
               /\ pc' = "rosdepUpdate"
               /\ UNCHANGED <<failed, message>>
    /\ UNCHANGED <<inputs, deps, extra_options, colconHome, tree, log>>

\* line 91
RosdepSkipped == inputs.platform = "win32"

\* lines 89-93
RosdepUpdate ==
    /\ pc = "rosdepUpdate"
    /\ IF RosdepSkipped
          THEN /\ pc' = "rmColcon"
               /\ UNCHANGED <<inputs, deps, commandPrefix, extra_options, colconHome,
                              tree, log, failed, message>>
          ELSE Call(execBashCommand(Line(RosdepUpdateCmd, <<>>, <<>>, FALSE),
                                    Str(commandPrefix), DefaultOptions),
                    "rosdepUpdate.await")

RosdepUpdateExit == pc = "rosdepUpdate.await" /\ Returns("rmColcon", tree)

\* line 96
RmColcon == pc = "rmColcon" /\ Io(RmColconOp, "rmWorkspace", FALSE, tree)

\* line 100
RmWorkspace == pc = "rmWorkspace" /\ Io(RmWorkspaceOp, "mkdirSrc", colconHome, RmRF(tree, <<>>))

\* line 103
MkdirSrc == pc = "mkdirSrc" /\ Io(MkdirSrcOp, "manifestImport", colconHome, MkdirP(tree, SrcDir))

\* lines 108-112
ManifestImport ==
    /\ pc = "manifestImport"
    /\ Call(execBashCommand(Line(ManifestImportCmd, <<>>, <<>>, FALSE),
                             Str(commandPrefix), DefaultOptions),
            "manifestImport.await")

ManifestImported(t) == VcsImport(t, SrcDir, inputs.manifest, {})

ManifestImportExit == pc = "manifestImport.await" /\ Returns("removeTarget", ManifestImported(tree))

\* lines 118-121
RemoveTarget ==
    /\ pc = "removeTarget"
    /\ Call(execBashCommand(Line(RemoveTargetCmd, <<>>, <<>>, FALSE),
                             Str(commandPrefix), DefaultOptions),
            "removeTarget.await")

TargetRemovedAtTop(t) == RmRF(t, SrcDir \o <<RepoName>>)

TargetRemoved(t) == RmAll(t, Lines(FindDirsNamed(t, RepoName)))

RemoveTargetExit == pc = "removeTarget.await" /\ Returns("targetImport", TargetRemoved(tree))

\* lines 126-142
TargetImport ==
    /\ pc = "targetImport"
    /\ Call(execBashCommand(Line(TargetImportCmd, <<>>, <<>>, FALSE),
                             Str(commandPrefix), DefaultOptions),
            "targetImport.await")

TargetImported(t) == VcsImport(t, SrcDir, TargetManifest, inputs.targetContent)

TargetImportExit == pc = "targetImport.await" /\ Returns("prune", TargetImported(tree))

\* lines 146-152
Prune ==
    /\ pc = "prune"
    /\ Call(execBashCommand(Line(PruneCmd,
                                  inputs.packageNameList, <<>>, FALSE),
                             Str(commandPrefix), DefaultOptions),
            "prune.await")

Pruned(t, d) ==
    RmAll(t, DiffOldOnly(ColconListAll(t),
                         ColconListUpTo(t, d, inputs.packageNameList)))

\* colcon reads the package manifests that the imports put on disk
PruneExit ==
    /\ pc = "prune.await"
    /\ \E d \in DepsOver(PackageNames(tree)) :
          /\ deps' = d
          /\ Exits("rosdepInstall", Pruned(tree, d))

RosdepInstallLineStrict == Line(RosdepInstallCmd, <<>>, <<>>, FALSE)

\* line 157: "... rosdep install ... -y || true"
RosdepInstallLine == Line(RosdepInstallCmd, <<>>, <<>>, TRUE)

\* lines 156-160
RosdepInstall ==
    /\ pc = "rosdepInstall"
    /\ Call(execBashCommand(RosdepInstallLine, Str(commandPrefix), DefaultOptions),
            "rosdepInstall.await")

RosdepInstallExit == pc = "rosdepInstall.await" /\ Returns("mixinAdd", tree)

MixinRequestedByName == inputs.colconMixinName # ""

\* line 162
MixinRequested == inputs.colconMixinName # "" /\ inputs.colconMixinRepo # ""

\* lines 162-166
MixinAdd ==
    /\ pc = "mixinAdd"
    /\ IF MixinRequested
          THEN Call(execBashCommand(Line(MixinAddCmd, <<>>, <<>>, FALSE),
                                    Str(commandPrefix), DefaultOptions),
                    "mixinAdd.await")
          ELSE /\ pc' = "extraOptions"
               /\ UNCHANGED <<inputs, deps, commandPrefix, extra_options, colconHome,
                              tree, log, failed, message>>

MixinAddExit == pc = "mixinAdd.await" /\ Returns("mixinUpdate", tree)

\* line 167
MixinUpdate ==
    /\ pc = "mixinUpdate"
    /\ Call(execBashCommand(Line(MixinUpdateCmd, <<>>, <<>>, FALSE),
                             Str(commandPrefix), DefaultOptions),
            "mixinUpdate.await")

MixinUpdateExit == pc = "mixinUpdate.await" /\ Returns("extraOptions", tree)

\* lines 170-173
ExtraOptions ==
    /\ pc = "extraOptions"
    /\ extra_options' = IF inputs.colconMixinName # ""
                           THEN extra_options \o <<"--mixin", inputs.colconMixinName>>
                           ELSE extra_options
    /\ pc' = "build"
    /\ UNCHANGED <<inputs, deps, commandPrefix, colconHome, tree, log, failed, message>>

\* lines 190-193
Build ==
    /\ pc = "build"
    /\ Call(execBashCommand(Line(BuildCmd, inputs.packageNameList,
                                  extra_options, FALSE),
                             Str(commandPrefix), DefaultOptions),
            "build.await")

BuildExit == pc = "build.await" /\ Returns("test", tree)

TestUnawaited ==
    /\ pc = "build.await"
    /\ Call(execBashCommand(Line(TestCmd, inputs.packageNameList, extra_options, FALSE),
                             Str(commandPrefix), DefaultOptions),
            "test.await")

\* lines 194-197
Test ==
    /\ pc = "test"
    /\ Call(execBashCommand(Line(TestCmd, inputs.packageNameList,
                                  extra_options, FALSE),
                             Str(commandPrefix), DefaultOptions),
            "test.await")

TestExit == pc = "test.await" /\ Returns("lcov", tree)

LcovOptionsStrict == [ignoreReturnCode |-> FALSE]

\* lines 205-206: { cwd, ignoreReturnCode: true }
LcovOptions == [ignoreReturnCode |-> TRUE]

\* lines 199-207: the prefix argument is undefined
Lcov ==
    /\ pc = "lcov"
    /\ Call(execBashCommand(Line(LcovCmd,
                                  inputs.packageNameList, <<>>, FALSE),
                             Undefined, LcovOptions),
            "lcov.await")

LcovExit == pc = "lcov.await" /\ Returns("done", tree)

Next ==
    \/ ReadInputs \/ BuildPrefix
    \/ RosdepUpdate \/ RosdepUpdateExit
    \/ RmColcon \/ RmWorkspace \/ MkdirSrc
    \/ ManifestImport \/ ManifestImportExit
    \/ RemoveTarget \/ RemoveTargetExit
    \/ TargetImport \/ TargetImportExit
    \/ Prune \/ PruneExit
    \/ RosdepInstall \/ RosdepInstallExit
    \/ MixinAdd \/ MixinAddExit
    \/ MixinUpdate \/ MixinUpdateExit
    \/ ExtraOptions
    \/ Build \/ BuildExit
    \/ Test \/ TestExit
    \/ Lcov \/ LcovExit

\* stages 1-4 alone: the run up to the end of Dependency Pruning
NextAssemble ==
    \/ ReadInputs \/ BuildPrefix
    \/ RosdepUpdate \/ RosdepUpdateExit
    \/ RmColcon \/ RmWorkspace \/ MkdirSrc
    \/ ManifestImport \/ ManifestImportExit
    \/ RemoveTarget \/ RemoveTargetExit
    \/ TargetImport \/ TargetImportExit
    \/ Prune \/ PruneExit

Spec == Init /\ [][Next]_vars
SpecInject == InitInject /\ [][Next]_vars
SpecPrune == InitPrune /\ [][NextAssemble]_vars

-----------------------------------------------------------------------------
(* Properties *)

Calls == 1..Len(log)
Exited(i) == log[i].state = "exited"
ExitedNonZero(i) == log[i].kind = "exec" /\ Exited(i) /\ log[i].status # 0
Tool(i) == log[i].line.tool
InputMissing == inputs.packageNameList = <<>> \/ inputs.vcsRepoFileUrl = ""
SourcingOffLinux == inputs.sourceRosBinaryInstallation # <<>> /\ inputs.platform # "linux"
TargetRef == IF inputs.headRef # "" THEN inputs.headRef ELSE inputs.sha

\* the stage of the pipeline a call belongs to (rosdep update precedes stage 1)
Stage(tool) ==
    CASE tool = RosdepUpdateCmd -> 0
      [] tool \in {RmColconOp, RmWorkspaceOp, MkdirSrcOp} -> 1
      [] tool = ManifestImportCmd -> 2
      [] tool \in {RemoveTargetCmd, TargetImportCmd} -> 3
      [] tool = PruneCmd -> 4
      [] OTHER -> 5

\* the commands of Manifest Import, Target Injection, Dependency Pruning, Build, Test
FatalCmds == {ManifestImportCmd, RemoveTargetCmd, TargetImportCmd, PruneCmd, BuildCmd, TestCmd}

\* a failing command of those stages is the last call made, fails the run and
\* is its reported cause
FailsFast ==
    \A i \in Calls :
        (Tool(i) \in FatalCmds /\ ExitedNonZero(i))
            => /\ i = Len(log)
               /\ pc = "done"
               /\ failed
               /\ message = ExecError(log[i].status)

\* C1 as claimed: fail-fast on a non-zero exit of a command of Manifest Import,
\* Target Injection, Dependency Pruning, Build or Test, and a run in which none
\* of them fails ends not marked as failed (read for the runs that pass the
\* input and platform checks, the ones that invoke commands at all).
C1_FailFastOnlyThose ==
    /\ FailsFast
    /\ (/\ pc = "done"
        /\ ~InputMissing /\ ~SourcingOffLinux
        /\ ~\E i \in Calls : Tool(i) \in FatalCmds /\ ExitedNonZero(i)) => ~failed

\* C1 amended: fail-fast on a non-zero exit of a command of those stages; a run
\* ends marked as failed exactly when a required input is missing, sourcing is
\* asked for off Linux, a filesystem call of Environment Reset throws, or some
\* command other than the coverage extraction exits non-zero.
C1_FailFast ==
    /\ FailsFast
    /\ pc = "done" =>
          (failed <=> \/ InputMissing
                      \/ SourcingOffLinux
                      \/ \E i \in Calls : log[i].state = "threw"
                      \/ \E i \in Calls : Tool(i) # LcovCmd /\ ExitedNonZero(i))

C1_Witness ==
    /\ pc = "done" /\ failed
    /\ \E i \in Calls : Tool(i) = BuildCmd /\ ExitedNonZero(i)
    /\ message.kind = "exec"

\* C2 as claimed: after a successful Target Injection the workspace holds
\* exactly one directory named as the target repository, at TargetSpec.ref.
C2_ExactlyOneDirectory ==
    pc = "prune" =>
        /\ Cardinality(FindDirsNamed(tree, RepoName)) = 1
        /\ <<"src", RepoName>> \in DOMAIN tree
        /\ tree[<<"src", RepoName>>] = TargetRef

\* C2 amended: after a successful Target Injection src/<repository> is a
\* checkout at TargetSpec.ref, it is the only checkout of that name in the
\* workspace, and any other directory of that name lies inside it.
C2_TargetInjected ==
    pc = "prune" =>
        LET top == <<"src", RepoName>>
        IN  /\ top \in DOMAIN tree
            /\ tree[top] = TargetRef
            /\ \A p \in DOMAIN tree :
                  (Len(p) > 0 /\ Last(p) = RepoName /\ p # top)
                      => IsPrefix(top, p) /\ tree[p] = ""

C2_Witness ==
    /\ pc = "prune"
    /\ {<<RepoName>>, <<GroupDir, RepoName>>} \subseteq DOMAIN inputs.manifest
    /\ inputs.headRef = ""
    /\ tree[<<"src", RepoName>>] = inputs.sha

\* packages the assembled workspace holds before pruning
BeforePruning ==
    {Last(k) : k \in {q \in DOMAIN inputs.manifest : Len(q) = 1}} \cup {RepoName}

RECURSIVE Grow(_, _)
Grow(S, k) ==
    IF k = 0 THEN S
    ELSE Grow(S \cup UNION {deps[n] \cap BeforePruning : n \in S}, k - 1)

\* the target packages in the workspace and, transitively, their dependencies in it
Needed == Grow(Range(inputs.packageNameList) \cap BeforePruning, Len(Names))

PruningSucceeded == \E i \in Calls : Tool(i) = PruneCmd /\ Exited(i) /\ log[i].status = 0

\* C3: after Dependency Pruning the packages left are exactly the workspace
\* packages that are transitive dependencies of the target packages, targets
\* included.
C3_PrunedToClosure ==
    (PruningSucceeded /\ inputs.packageNameList # <<>>) => PackageNames(tree) = Needed

C3_Witness ==
    /\ PruningSucceeded
    /\ BeforePruning = NameSet
    /\ Len(inputs.packageNameList) = 1
    /\ Cardinality(PackageNames(tree)) = 3
    /\ \E n \in PackageNames(tree) :
          /\ n \notin Range(inputs.packageNameList)
          /\ n \notin UNION {deps[m] : m \in Range(inputs.packageNameList)}

NotBothMixinInputs == ~(inputs.colconMixinName # "" /\ inputs.colconMixinRepo # "")
NoMixinCommand == \A i \in Calls : Tool(i) \notin {MixinAddCmd, MixinUpdateCmd}

C5_EveryCommandSourced ==
    (inputs.sourceRosBinaryInstallation # <<>> /\ inputs.platform = "linux") =>
        \A i \in Calls :
            log[i].kind = "exec" =>
                /\ log[i].lead.sources = inputs.sourceRosBinaryInstallation
                /\ log[i].lead.word = ""

\* C6: once build and test have both succeeded the run is not marked as
\* failed, whatever the coverage extraction returns.
C6_CoverageNeverFails ==
    (/\ \E i \in Calls : Tool(i) = BuildCmd /\ Exited(i) /\ log[i].status = 0
     /\ \E i \in Calls : Tool(i) = TestCmd /\ Exited(i) /\ log[i].status = 0)
        => ~failed

C6_Witness ==
    /\ pc = "done" /\ ~failed
    /\ \E i \in Calls : Tool(i) = LcovCmd /\ ExitedNonZero(i)

\* C7: sourcing asked for off Linux: the run ends failed with the platform
\* message, no call is ever made, and neither ~/.colcon nor the workspace
\* directory changes.
C7_PlatformRejection ==
    /\ [](SourcingOffLinux =>
            /\ log = <<>>
            /\ pc \in {"start", "prefix", "done"}
            /\ pc = "done" => (failed /\ (~InputMissing => message = PlatformError)))
    /\ [][SourcingOffLinux => (tree' = tree /\ colconHome' = colconHome)]_vars

C7_Witness ==
    /\ SourcingOffLinux /\ pc = "done" /\ message = PlatformError
    /\ colconHome /\ tree = StaleTree

InstallFailed(i) == Tool(i) = RosdepInstallCmd /\ Exited(i) /\ log[i].inner # 0

\* a failed installation exits zero, and if the run is failed a later command is why
InstallTolerated ==
    \A i \in Calls :
        InstallFailed(i) =>
            /\ log[i].status = 0
            /\ i = Len(log) => pc \in {"mixinAdd", "extraOptions", "build"}
            /\ failed => \E j \in Calls : j > i /\ ExitedNonZero(j)
                                            /\ message = ExecError(log[j].status)

\* C8 as claimed: a failed dependency installation never fails the run and the
\* build is still invoked afterwards (read on Linux, where the installer is
\* meant to run).
C8_BuildAlwaysFollows ==
    /\ InstallTolerated
    /\ \A i \in Calls :
          (InstallFailed(i) /\ pc = "done" /\ inputs.platform = "linux")
              => \E j \in Calls : j > i /\ Tool(j) = BuildCmd

\* C8 amended: a failed dependency installation never fails the run, and the
\* build is still invoked afterwards unless a mixin command in between fails.
C8_InstallNonFatal ==
    /\ InstallTolerated
    /\ \A i \in Calls :
          (InstallFailed(i) /\ pc = "done") =>
              \/ \E j \in Calls : j > i /\ Tool(j) = BuildCmd
              \/ \E j \in Calls : j > i /\ Tool(j) \in {MixinAddCmd, MixinUpdateCmd}
                                         /\ ExitedNonZero(j)

C8_Witness ==
    /\ pc = "done"
    /\ commandPrefix # <<>>
    /\ \E i \in Calls : InstallFailed(i) /\ \E j \in Calls : j > i /\ Tool(j) = BuildCmd

\* C9: calls are made one at a time, in stage order, each after every earlier
\* one has ended, and test is invoked only after build exited zero.
C9_Sequential ==
    /\ Cardinality(Running) <= 1
    /\ \A i, j \in Calls :
          i < j => /\ log[i].state # "running"
                   /\ Stage(Tool(i)) <= Stage(Tool(j))
    /\ \A j \in Calls :
          Tool(j) = TestCmd =>
              \E i \in Calls : i < j /\ Tool(i) = BuildCmd /\ Exited(i) /\ log[i].status = 0

C9_Witness ==
    /\ Len(log) > 0 /\ Tool(Len(log)) = TestCmd /\ log[Len(log)].state = "running"

\* C10: on win32 no rosdep command, update or install, is ever invoked.
C10_NoRosdepOnWindows ==
    inputs.platform = "win32" =>
        \A i \in Calls : Tool(i) \notin {RosdepUpdateCmd, RosdepInstallCmd}

====
